---- MODULE Spec2Model ----
(***************************************************************************)
(* A model of scripts/sysmon_v1.py: the command-line validators            *)
(* (ArgParseWrapper), the start-up code under __main__, the monitoring     *)
(* loop start_sys_monitoring and the SIGINT handler signal_handler.        *)
(*                                                                         *)
(* Raw command-line values are sequences of one-character strings, so      *)
(* that int() and str.split/str.strip are computed, not assumed.           *)
(***************************************************************************)
EXTENDS Integers, Sequences, FiniteSets, TLC

(***************************************************************************)
(* Program constants.                                                      *)
(***************************************************************************)
MIN_LOG_INTERVAL == 5
MAX_LOG_INTERVAL == 3600
VALID_SYS_PARAMS == <<"memory", "cpu", "disk", "network", "all">>

MIN_THRESHOLD == 1
MAX_THRESHOLD == 99

DEFAULT_LOG_INTERVAL == 300
DEFAULT_THRESHOLD == 80

\* psutil.cpu_percent(interval=1) blocks for one second.
CPU_WINDOW == 1

\* Exit statuses: sys.exit(0) in signal_handler, an uncaught exception,
\* argparse's parser.error, and death by the default SIGINT disposition.
EXIT_SUCCESS == 0
EXIT_EXCEPTION == 1
EXIT_USAGE == 2
EXIT_SIGINT == 130

(***************************************************************************)
(* Bounds of the model.                                                    *)
(***************************************************************************)
\* The loop is unbounded; the model follows it for MaxCycles cycles.
MaxCycles == 2
\* The extra time, in seconds, a slow OS query takes (a fast one takes 0).
SlowQuery == 3

(***************************************************************************)
(* Generic helpers.                                                        *)
(***************************************************************************)
Range(s) == {s[i] : i \in 1..Len(s)}

\* list.remove(x): the list without the first occurrence of x.
RECURSIVE Remove(_, _)
Remove(s, x) ==
    IF s = <<>> THEN <<>>
    ELSE IF Head(s) = x THEN Tail(s)
    ELSE <<Head(s)>> \o Remove(Tail(s), x)

(***************************************************************************)
(* int(str): optional surrounding whitespace, an optional sign, then one   *)
(* or more decimal digits.  Anything else raises ValueError.               *)
(***************************************************************************)

Digits == <<"0", "1", "2", "3", "4", "5", "6", "7", "8", "9">>

IsDigit(c) == c \in Range(Digits)

DigitVal(c) == (CHOOSE i \in 1..Len(Digits) : Digits[i] = c) - 1

IsSpace(c) == c = " "

RECURSIVE LStrip(_)
LStrip(s) ==
    IF s # <<>> /\ IsSpace(Head(s)) THEN LStrip(Tail(s)) ELSE s

RECURSIVE RStrip(_)
RStrip(s) ==
    IF s # <<>> /\ IsSpace(s[Len(s)]) THEN RStrip(SubSeq(s, 1, Len(s) - 1)) ELSE s

\* str.strip()
Strip(s) == RStrip(LStrip(s))

RECURSIVE DigitsValue(_, _)
DigitsValue(s, acc) ==
    IF s = <<>> THEN acc
    ELSE DigitsValue(Tail(s), acc * 10 + DigitVal(Head(s)))

PyInt(raw) ==
    LET s == Strip(raw)
        signed == s # <<>> /\ Head(s) \in {"+", "-"}
        body == IF signed THEN Tail(s) ELSE s
    IN  IF body = <<>> \/ \E i \in 1..Len(body) : ~IsDigit(body[i])
        THEN [ok |-> FALSE, value |-> 0]
        ELSE IF signed /\ Head(s) = "-"
             THEN [ok |-> TRUE, value |-> 0 - DigitsValue(body, 0)]
             ELSE [ok |-> TRUE, value |-> DigitsValue(body, 0)]

(***************************************************************************)
(* A validator either returns a value or raises ArgumentTypeError.         *)
(***************************************************************************)
Return(v) == [ok |-> TRUE, value |-> v, error |-> ""]
Raise(msg) == [ok |-> FALSE, value |-> 0, error |-> msg]

ArgParseWrapper_log_interval(raw) ==
    LET parsed == PyInt(raw)
        interval == parsed.value
    IN  IF ~parsed.ok
        THEN Raise("invalid log_interval. It should be an integer")
        ELSE IF interval < MIN_LOG_INTERVAL \/ interval > MAX_LOG_INTERVAL
             THEN Raise("log_interval should be within the range")
             ELSE Return(interval)

ArgParseWrapper_memory_threshold(raw) ==
    LET parsed == PyInt(raw)
        threshold == parsed.value
    IN  IF ~parsed.ok
        THEN Raise("invalid memory_threshold. It should be an integer")
        ELSE IF threshold < MIN_THRESHOLD \/ threshold > MAX_THRESHOLD
             THEN Raise("memory_threshold should be within the range")
             ELSE Return(threshold)

ArgParseWrapper_cpu_threshold(raw) ==
    LET parsed == PyInt(raw)
        threshold == parsed.value
    IN  IF ~parsed.ok
        THEN Raise("invalid cpu_threshold. It should be an integer")
        ELSE IF threshold < MIN_THRESHOLD \/ threshold > MAX_THRESHOLD
             THEN Raise("cpu_threshold should be within the range")
             ELSE Return(threshold)

\* Mutant: the upper bound of the range test is off by one.
disk_threshold_upto100(raw) ==
    LET parsed == PyInt(raw)
        threshold == parsed.value
    IN  IF ~parsed.ok
        THEN Raise("invalid disk_threshold. It should be an integer")
        ELSE IF threshold < MIN_THRESHOLD \/ threshold > MAX_THRESHOLD + 1
             THEN Raise("disk_threshold should be within the range")
             ELSE Return(threshold)

ArgParseWrapper_disk_threshold(raw) ==
    LET parsed == PyInt(raw)
        threshold == parsed.value
    IN  IF ~parsed.ok
        THEN Raise("invalid disk_threshold. It should be an integer")
        ELSE IF threshold < MIN_THRESHOLD \/ threshold > MAX_THRESHOLD
             THEN Raise("disk_threshold should be within the range")
             ELSE Return(threshold)

(***************************************************************************)
(* The raw --capture value is a sequence of lexical tokens: a word (a run  *)
(* of non-blank, non-comma characters, kept as one string), "," or " ".    *)
(***************************************************************************)
\* str.split(','): the pieces between the commas (always at least one).
RECURSIVE SplitComma(_, _)
SplitComma(s, piece) ==
    IF s = <<>> THEN <<piece>>
    ELSE IF Head(s) = "," THEN <<piece>> \o SplitComma(Tail(s), <<>>)
    ELSE SplitComma(Tail(s), Append(piece, Head(s)))

\* The string a stripped piece stands for: one word is that word, no word
\* is the empty string; words separated by blanks are no parameter name.
PieceName(piece) ==
    LET p == Strip(piece)
    IN  IF p = <<>> THEN ""
        ELSE IF Len(p) = 1 THEN p[1]
        ELSE "<words>"

\* Mutant: 'all' is expanded only when it is the only name.
capture_all_only_alone(raw) ==
    LET pieces == SplitComma(raw, <<>>)
        capture == [i \in 1..Len(pieces) |-> PieceName(pieces[i])]
        invalid_sys_params == Range(capture) \ Range(VALID_SYS_PARAMS)
    IN  IF invalid_sys_params # {}
        THEN Raise("invalid system param passed for monitoring")
        ELSE IF capture = <<"all">>
             THEN Return(Remove(VALID_SYS_PARAMS, "all"))
             ELSE Return(capture)

ArgParseWrapper_capture(raw) ==
    LET pieces == SplitComma(raw, <<>>)
        capture == [i \in 1..Len(pieces) |-> PieceName(pieces[i])]
        invalid_sys_params == Range(capture) \ Range(VALID_SYS_PARAMS)
    IN  IF invalid_sys_params # {}
        THEN Raise("invalid system param passed for monitoring")
        ELSE IF "all" \in Range(capture)
             THEN Return(Remove(VALID_SYS_PARAMS, "all"))
             ELSE Return(capture)

\* "the option is not on the command line": argparse keeps the default.
Absent == <<"<absent>">>

\* What argparse makes of an option: the type function applied to the
\* string given, or the default.  Only a default that is a string ('all')
\* goes through the type function.
arg_log_interval(raw) ==
    IF raw = Absent THEN Return(DEFAULT_LOG_INTERVAL) ELSE ArgParseWrapper_log_interval(raw)

arg_capture(raw) ==
    ArgParseWrapper_capture(IF raw = Absent THEN <<"all">> ELSE raw)

arg_memory_threshold(raw) ==
    IF raw = Absent THEN Return(DEFAULT_THRESHOLD) ELSE ArgParseWrapper_memory_threshold(raw)

arg_cpu_threshold(raw) ==
    IF raw = Absent THEN Return(DEFAULT_THRESHOLD) ELSE ArgParseWrapper_cpu_threshold(raw)

arg_disk_threshold(raw) ==
    IF raw = Absent THEN Return(DEFAULT_THRESHOLD) ELSE ArgParseWrapper_disk_threshold(raw)

(***************************************************************************)
(* Inputs of the model.                                                    *)
(***************************************************************************)
\* Raw integers around every boundary of the validators, and non-integers.
RawIntegers ==
    { <<"4">>, <<"5">>, <<"6">>, <<"3", "6", "0", "0">>, <<"3", "6", "0", "1">>,
      <<"0">>, <<"1">>, <<"2">>, <<"9", "8">>, <<"9", "9">>, <<"1", "0", "0">>,
      <<"-", "1">>, <<"+", "7">>, <<" ", "9", " ">>, <<"5", ".", "0">>,
      <<"a", "b", "c">>, <<>>, <<"9", "x">>, <<"-">> }

RawCaptures ==
    { <<"all">>, <<"memory">>, <<"cpu">>, <<"disk">>, <<"network">>,
      <<"cpu", ",", "disk">>, <<"disk", ",", " ", "memory">>,
      <<"memory", ",", "all">>, <<" ", "network", " ", ",", "network">>,
      <<"swap">>, <<"memory", ",", "swap">>, <<"memory", ",">>, <<>>,
      <<"cpu", " ", "disk">>, <<"ALL">> }

\* The command lines (and platforms) the monitoring loop is followed under.
CommandLine(os, interval, capture, memory, cpu, disk) ==
    [os_name |-> os, log_interval |-> interval, capture |-> capture,
     memory_threshold |-> memory, cpu_threshold |-> cpu, disk_threshold |-> disk]

CommandLines ==
    { CommandLine("posix", <<"5">>, <<"all">>, <<"1">>, <<"9", "9">>, Absent),
      CommandLine("nt", <<"3", "6", "0", "0">>, <<"cpu", ",", "disk">>,
                  Absent, <<"1">>, <<"9", "9">>),
      CommandLine("posix", <<"3", "6", "0", "0">>, <<"memory">>,
                  <<"9", "9">>, Absent, Absent),
      CommandLine("posix", Absent, <<"network">>, Absent, Absent, Absent),
      CommandLine("nt", <<"5">>, <<"disk", ",", " ", "memory">>,
                  <<"5", "0">>, Absent, <<"1">>) }

\* The percentages a query may report for a metric with threshold t.
SampleValues(t) == {t - 1, t, t + 1}

\* The time a query takes beyond its fixed part.
QueryTimes == {0, SlowQuery}

\* psutil.disk_partitions(all=False)
Partitions ==
    << [device |-> "/dev/sda1", mountpoint |-> "/", fstype |-> "ext4", cdrom |-> FALSE],
       [device |-> "/dev/sdb1", mountpoint |-> "/data", fstype |-> "ext4", cdrom |-> FALSE],
       [device |-> "/dev/sr0", mountpoint |-> "/media", fstype |-> "", cdrom |-> TRUE] >>

OsNames == {"posix", "nt"}

(***************************************************************************)
(* The unit formatter.  A field value is a number or a string; a number is *)
(* kept as hi * 2^30 + lo, so that terabyte counts stay within the range   *)
(* of the integers of the model.                                           *)
(***************************************************************************)
KiB == 2 ^ 10
MiB == KiB * KiB

Number(hi, lo) == [hi |-> hi, lo |-> lo, text |-> ""]
Text(s) == [hi |-> 0, lo |-> 0, text |-> s]

\* whole + part/1024, with two decimals.
TwoDecimals(whole, part) ==
    LET hundredths == (part * 100 + 512) \div 1024
    IN  IF hundredths >= 100
        THEN ToString(whole + 1) \o ".00"
        ELSE ToString(whole) \o "." \o (IF hundredths < 10 THEN "0" ELSE "")
                 \o ToString(hundredths)

\* psutil._common.bytes2human, as section 4.1 of the specification states
\* it: the largest binary unit the count reaches, two decimals.
bytes2human(n) ==
    IF n.hi >= KiB THEN TwoDecimals(n.hi \div KiB, n.hi % KiB) \o "T"
    ELSE IF n.hi >= 1 THEN TwoDecimals(n.hi, n.lo \div MiB) \o "G"
    ELSE IF n.lo >= MiB THEN TwoDecimals(n.lo \div MiB, (n.lo % MiB) \div KiB) \o "M"
    ELSE IF n.lo >= KiB THEN TwoDecimals(n.lo \div KiB, n.lo % KiB) \o "K"
    ELSE ToString(n.lo) \o "B"

\* str(value) of a number below 2^30
str(value) == ToString(value.lo)

OpaqueFields == {"fstype", "mountpoint", "device"}

Field(name, value) == [name |-> name, value |-> value]

\* Mutant: the percent field is not told apart from the byte counts.
convert4humans_percent_as_bytes(ntup) ==
    [i \in 1..Len(ntup) |->
        Field(ntup[i].name,
              IF ntup[i].name \in OpaqueFields THEN ntup[i].value
              ELSE Text(bytes2human(ntup[i].value)))]

\* convert4humans: an OrderedDict with the fields of ntup, in their order.
convert4humans(ntup) ==
    [i \in 1..Len(ntup) |->
        Field(ntup[i].name,
              IF ntup[i].name = "percent" THEN Text(str(ntup[i].value) \o "%")
              ELSE IF ntup[i].name \in OpaqueFields THEN ntup[i].value
              ELSE Text(bytes2human(ntup[i].value)))]

\* Byte counts and percentages the formatter is applied to.
ByteCounts ==
    { Number(0, 0), Number(0, 1023), Number(0, KiB), Number(0, KiB + 512),
      Number(0, MiB), Number(0, 5 * MiB + 256 * KiB), Number(1, 0),
      Number(1, 512 * MiB), Number(KiB, 0), Number(3 * KiB + 768, 0) }

Percents == {0, 42, 100}

\* The shape of psutil.disk_usage(...) and of the memory readings.
Usage(total, used, percent) ==
    << Field("total", total), Field("used", used),
       Field("percent", Number(0, percent)) >>

\* A reading that carries the fields of a partition as well.
PartitionUsage(part, total, percent) ==
    << Field("device", Text(part.device)), Field("mountpoint", Text(part.mountpoint)),
       Field("fstype", Text(part.fstype)), Field("total", total),
       Field("percent", Number(0, percent)) >>

Readings ==
    { Usage(t, u, p) : t \in ByteCounts, u \in ByteCounts, p \in Percents }
    \cup { PartitionUsage(Partitions[i], t, p) :
             i \in 1..Len(Partitions), t \in ByteCounts, p \in Percents }

(***************************************************************************)
(* State.                                                                  *)
(***************************************************************************)
VARIABLES
    pc,                \* the position of the single thread of control
    os_name,           \* os.name
    log_interval,      \* args.log_interval
    capture_params,    \* args.capture
    memory_threshold,  \* args.memory_threshold
    cpu_threshold,     \* args.cpu_threshold
    disk_threshold,    \* args.disk_threshold
    last_arg,          \* the option parse_args handled last: [option, raw]
    parse_error,       \* what parser.error reported: [argument, message]
    exit_status,       \* the exit status once the process has ended
    fault,             \* the exception that ended the process, if any
    cycle,             \* the number of loop iterations started
    sys_stats,         \* the Snapshot under construction
    observed,          \* the aggregate percentages read in this iteration
    disk_stats,        \* per-partition usage gathered so far
    part_idx,          \* position of the partition loop
    sampled,           \* the OS queries made in this iteration
    cycle_warnings,    \* warning lines of this iteration, in order
    warn_count,        \* number of warning lines on the operator stream
    handed,            \* number of Snapshots handed to flogobj.info
    buffer,            \* records written to the log stream, not yet flushed
    log,               \* records in the log file
    write_errors,      \* writes the log destination rejected (reported on stderr)
    elapsed,           \* seconds since the start of this iteration
    last_duration,     \* seconds the previous iteration took up to its record
    last_idle,         \* seconds slept after the previous iteration
    ntup,              \* the reading handed to convert4humans
    readings           \* what convert4humans returned for it

cfg_vars == <<os_name, log_interval, capture_params, memory_threshold,
              cpu_threshold, disk_threshold, last_arg, parse_error>>
cycle_vars == <<cycle, sys_stats, observed, disk_stats, part_idx, sampled>>
warn_vars == <<cycle_warnings, warn_count>>
log_vars == <<handed, buffer, log, write_errors>>
time_vars == <<elapsed, last_duration, last_idle>>
fmt_vars == <<ntup, readings>>

vars == <<pc, exit_status, fault, cfg_vars, cycle_vars, warn_vars, log_vars, time_vars,
          fmt_vars>>

Metrics == {"virtual_memory", "swap_memory", "cpu", "disk"}

NoValue == [m \in Metrics |-> -1]
NoError == [argument |-> "", message |-> ""]
NoArg == [option |-> "", raw |-> <<>>]
NoExit == -1

StartupPcs == {"parse_log_interval", "parse_capture", "parse_memory_threshold",
               "parse_cpu_threshold", "parse_disk_threshold", "main"}

LoopPcs == {"loop", "memory", "warn_virt", "warn_swap", "cpu", "warn_cpu",
            "cpu_rest", "disk", "warn_disk", "disk_io", "partitions",
            "network", "record", "flush", "sleep"}

\* Everything but the position and the parsed arguments.
Fresh ==
    /\ last_arg = NoArg
    /\ parse_error = NoError
    /\ exit_status = NoExit
    /\ fault = "none"
    /\ cycle = 0
    /\ sys_stats = <<>>
    /\ observed = NoValue
    /\ disk_stats = <<>>
    /\ part_idx = 0
    /\ sampled = {}
    /\ cycle_warnings = <<>>
    /\ warn_count = 0
    /\ handed = 0
    /\ buffer = <<>>
    /\ log = <<>>
    /\ write_errors = 0
    /\ elapsed = 0
    /\ last_duration = 0
    /\ last_idle = 0
    /\ readings = <<>>

\* The process as parser.parse_args() starts: the namespace holds nothing
\* yet (the values below are placeholders, overwritten by every Parse step).
ConfigInit ==
    /\ pc = "parse_log_interval"
    /\ os_name \in OsNames
    /\ log_interval = 0
    /\ capture_params = <<>>
    /\ memory_threshold = 0
    /\ cpu_threshold = 0
    /\ disk_threshold = 0
    /\ ntup = <<>>
    /\ Fresh

\* The process after parser.parse_args() has returned for a command line
\* every validator accepts.
Init ==
    /\ pc = "main"
    /\ \E cl \in CommandLines :
         /\ arg_log_interval(cl.log_interval).ok
         /\ arg_capture(cl.capture).ok
         /\ arg_memory_threshold(cl.memory_threshold).ok
         /\ arg_cpu_threshold(cl.cpu_threshold).ok
         /\ arg_disk_threshold(cl.disk_threshold).ok
         /\ os_name = cl.os_name
         /\ log_interval = arg_log_interval(cl.log_interval).value
         /\ capture_params = arg_capture(cl.capture).value
         /\ memory_threshold = arg_memory_threshold(cl.memory_threshold).value
         /\ cpu_threshold = arg_cpu_threshold(cl.cpu_threshold).value
         /\ disk_threshold = arg_disk_threshold(cl.disk_threshold).value
    /\ ntup = <<>>
    /\ Fresh

(***************************************************************************)
(* parser.parse_args(): each option goes through its type function; an     *)
(* ArgumentTypeError becomes parser.error, which names the option and      *)
(* exits with status 2.                                                    *)
(***************************************************************************)
ParserError(argument, message) ==
    /\ parse_error' = [argument |-> argument, message |-> message]
    /\ pc' = "done"
    /\ exit_status' = EXIT_USAGE

ParseLogInterval ==
    /\ pc = "parse_log_interval"
    /\ \E raw \in RawIntegers \cup {Absent} :
         LET r == arg_log_interval(raw)
         IN  /\ last_arg' = [option |-> "--log_interval", raw |-> raw]
             /\ IF r.ok
                THEN /\ log_interval' = r.value
                     /\ pc' = "parse_capture"
                     /\ UNCHANGED <<parse_error, exit_status>>
                ELSE /\ ParserError("--log_interval", r.error)
                     /\ UNCHANGED log_interval
    /\ UNCHANGED <<fmt_vars, os_name, capture_params, memory_threshold, cpu_threshold,
                   disk_threshold, fault, cycle_vars, warn_vars, log_vars, time_vars>>

ParseCapture ==
    /\ pc = "parse_capture"
    /\ \E raw \in RawCaptures \cup {Absent} :
         LET r == arg_capture(raw)
         IN  /\ last_arg' = [option |-> "--capture", raw |-> raw]
             /\ IF r.ok
                THEN /\ capture_params' = r.value
                     /\ pc' = "parse_memory_threshold"
                     /\ UNCHANGED <<parse_error, exit_status>>
                ELSE /\ ParserError("--capture", r.error)
                     /\ UNCHANGED capture_params
    /\ UNCHANGED <<fmt_vars, os_name, log_interval, memory_threshold, cpu_threshold,
                   disk_threshold, fault, cycle_vars, warn_vars, log_vars, time_vars>>

ParseMemoryThreshold ==
    /\ pc = "parse_memory_threshold"
    /\ \E raw \in RawIntegers \cup {Absent} :
         LET r == arg_memory_threshold(raw)
         IN  /\ last_arg' = [option |-> "--memory_threshold", raw |-> raw]
             /\ IF r.ok
                THEN /\ memory_threshold' = r.value
                     /\ pc' = "parse_cpu_threshold"
                     /\ UNCHANGED <<parse_error, exit_status>>
                ELSE /\ ParserError("--memory_threshold", r.error)
                     /\ UNCHANGED memory_threshold
    /\ UNCHANGED <<fmt_vars, os_name, log_interval, capture_params, cpu_threshold,
                   disk_threshold, fault, cycle_vars, warn_vars, log_vars, time_vars>>

ParseCpuThreshold ==
    /\ pc = "parse_cpu_threshold"
    /\ \E raw \in RawIntegers \cup {Absent} :
         LET r == arg_cpu_threshold(raw)
         IN  /\ last_arg' = [option |-> "--cpu_threshold", raw |-> raw]
             /\ IF r.ok
                THEN /\ cpu_threshold' = r.value
                     /\ pc' = "parse_disk_threshold"
                     /\ UNCHANGED <<parse_error, exit_status>>
                ELSE /\ ParserError("--cpu_threshold", r.error)
                     /\ UNCHANGED cpu_threshold
    /\ UNCHANGED <<fmt_vars, os_name, log_interval, capture_params, memory_threshold,
                   disk_threshold, fault, cycle_vars, warn_vars, log_vars, time_vars>>

ParseDiskThreshold ==
    /\ pc = "parse_disk_threshold"
    /\ \E raw \in RawIntegers \cup {Absent} :
         LET r == arg_disk_threshold(raw)
         IN  /\ last_arg' = [option |-> "--disk_threshold", raw |-> raw]
             /\ IF r.ok
                THEN /\ disk_threshold' = r.value
                     /\ pc' = "main"
                     /\ UNCHANGED <<parse_error, exit_status>>
                ELSE /\ ParserError("--disk_threshold", r.error)
                     /\ UNCHANGED disk_threshold
    /\ UNCHANGED <<fmt_vars, os_name, log_interval, capture_params, memory_threshold,
                   cpu_threshold, fault, cycle_vars, warn_vars, log_vars, time_vars>>

(***************************************************************************)
(* Ends of the process.                                                    *)
(***************************************************************************)
\* logging.shutdown(): every handler is flushed and closed.  A flush the
\* destination rejects leaves the pending records unwritten.
Shutdown(ok) ==
    IF buffer = <<>>
    THEN UNCHANGED <<buffer, log, write_errors>>
    ELSE IF ok
         THEN /\ log' = log \o buffer
              /\ buffer' = <<>>
              /\ UNCHANGED write_errors
         ELSE /\ write_errors' = write_errors + 1
              /\ UNCHANGED <<buffer, log>>

\* An exception nobody catches: the traceback is printed, logging's atexit
\* hook runs logging.shutdown(), and the interpreter exits with status 1.
Uncaught(origin) ==
    /\ fault' = origin
    /\ pc' = "done"
    /\ exit_status' = EXIT_EXCEPTION
    /\ \E ok \in BOOLEAN : Shutdown(ok)
    /\ UNCHANGED handed

\* Ctrl-C before signal.signal has installed signal_handler raises
\* KeyboardInterrupt in the main thread.
KeyboardInterrupt ==
    /\ pc \in StartupPcs
    /\ fault' = "KeyboardInterrupt"
    /\ pc' = "done"
    /\ exit_status' = EXIT_SIGINT
    /\ UNCHANGED <<cfg_vars, fmt_vars, cycle_vars, warn_vars, log_vars, time_vars>>

\* SIGINT once signal_handler is installed: the handler runs in the main
\* thread at the point the loop has reached.
Interrupt ==
    /\ pc \in LoopPcs
    /\ pc' = "signal_handler"
    /\ UNCHANGED <<exit_status, fault, cfg_vars, fmt_vars, cycle_vars, warn_vars, log_vars, time_vars>>

\* Mutant: the handler exits without logging.shutdown().
signal_handler_no_shutdown ==
    /\ pc = "signal_handler"
    /\ pc' = "done"
    /\ exit_status' = EXIT_SUCCESS
    /\ UNCHANGED <<fault, cfg_vars, fmt_vars, cycle_vars, warn_vars, log_vars, time_vars>>

\* signal_handler: print, logging.shutdown(), sys.exit(0).
signal_handler ==
    /\ pc = "signal_handler"
    /\ \E ok \in BOOLEAN : Shutdown(ok)
    /\ pc' = "done"
    /\ exit_status' = EXIT_SUCCESS
    /\ UNCHANGED <<fault, handed, cfg_vars, fmt_vars, cycle_vars, warn_vars, time_vars>>

(***************************************************************************)
(* __main__ after parse_args: the two loggers, the signal handler, the     *)
(* call of start_sys_monitoring.                                           *)
(***************************************************************************)
Main ==
    /\ pc = "main"
    /\ \E opened \in BOOLEAN :
         IF opened
         THEN /\ pc' = "loop"
              /\ UNCHANGED <<exit_status, fault, log_vars>>
         ELSE Uncaught("init_file_logger")
    /\ UNCHANGED <<cfg_vars, fmt_vars, cycle_vars, warn_vars, time_vars>>

(***************************************************************************)
(* start_sys_monitoring.                                                   *)
(***************************************************************************)
DomainOrder == <<"memory", "cpu", "disk", "network">>

Captured(domain) == domain \in Range(capture_params)

\* Mutant: the "in capture_params" tests are missing.
AfterDomainUntested(i) ==
    IF i >= Len(DomainOrder) THEN "record" ELSE DomainOrder[i + 1]

\* Mutant: the blocks run in the order of the names in capture_params.
AfterDomainInListOrder(i) ==
    IF i = 0 THEN capture_params[1]
    ELSE LET at == CHOOSE j \in 1..Len(capture_params) :
                       capture_params[j] = DomainOrder[i]
         IN  IF at < Len(capture_params) THEN capture_params[at + 1] ELSE "record"

\* The position after the i-th "if <domain> in capture_params" block: the
\* next block whose test succeeds, or the record.
RECURSIVE AfterDomain(_)
AfterDomain(i) ==
    IF i >= Len(DomainOrder) THEN "record"
    ELSE IF Captured(DomainOrder[i + 1]) THEN DomainOrder[i + 1]
    ELSE AfterDomain(i + 1)

Entry(key, fields) == [key |-> key, fields |-> fields, partitions |-> <<>>]

\* sys_stats[<last key>][field] = ... for each of the fields.
AddFields(stats, fields) ==
    [stats EXCEPT ![Len(stats)].fields = @ \o fields]

\* Mutant: the threshold test is >= instead of >.
ExceedsOrEquals(value, threshold) == value >= threshold

\* The threshold test of lines 203, 207, 214 and 228.
Exceeds(value, threshold) == value > threshold

\* slogobj.warning(...) if the metric exceeds its threshold.  This is the
\* last read of the percentage in the iteration, so the model forgets it.
Warn(metric, threshold) ==
    /\ IF Exceeds(observed[metric], threshold)
       THEN /\ cycle_warnings' = Append(cycle_warnings,
                   [metric |-> metric, value |-> observed[metric], threshold |-> threshold])
            /\ warn_count' = warn_count + 1
       ELSE UNCHANGED <<cycle_warnings, warn_count>>
    /\ observed' = [observed EXCEPT ![metric] = -1]

\* while True: a fresh sys_stats with the time stamp.
CycleStart ==
    /\ pc = "loop"
    /\ cycle < MaxCycles
    /\ cycle' = cycle + 1
    /\ sys_stats' = <<Entry("current_time", <<>>)>>
    /\ observed' = NoValue
    /\ disk_stats' = <<>>
    /\ part_idx' = 0
    /\ sampled' = {}
    /\ cycle_warnings' = <<>>
    /\ elapsed' = 0
    /\ pc' = AfterDomain(0)
    /\ UNCHANGED <<exit_status, fault, cfg_vars, fmt_vars, warn_count, log_vars,
                   last_duration, last_idle>>

\* psutil.virtual_memory() and psutil.swap_memory()
Memory ==
    /\ pc = "memory"
    /\ sampled' = sampled \cup {"memory"}
    /\ \E raised \in BOOLEAN :
         IF raised
         THEN /\ Uncaught("memory")
              /\ UNCHANGED <<sys_stats, observed, elapsed>>
         ELSE /\ \E virt \in SampleValues(memory_threshold),
                    swap \in SampleValues(memory_threshold) :
                    observed' = [observed EXCEPT !["virtual_memory"] = virt,
                                                 !["swap_memory"] = swap]
              /\ \E d \in QueryTimes : elapsed' = elapsed + d
              /\ sys_stats' = Append(sys_stats,
                                     Entry("memory", <<"virtual_memory", "swap_memory">>))
              /\ pc' = "warn_virt"
              /\ UNCHANGED <<exit_status, fault, log_vars>>
    /\ UNCHANGED <<cfg_vars, fmt_vars, cycle, disk_stats, part_idx, warn_vars,
                   last_duration, last_idle>>

WarnVirt ==
    /\ pc = "warn_virt"
    /\ Warn("virtual_memory", memory_threshold)
    /\ pc' = "warn_swap"
    /\ UNCHANGED <<exit_status, fault, cfg_vars, fmt_vars, cycle, sys_stats, disk_stats, part_idx,
                   sampled, log_vars, time_vars>>

WarnSwap ==
    /\ pc = "warn_swap"
    /\ Warn("swap_memory", memory_threshold)
    /\ pc' = AfterDomain(1)
    /\ UNCHANGED <<exit_status, fault, cfg_vars, fmt_vars, cycle, sys_stats, disk_stats, part_idx,
                   sampled, log_vars, time_vars>>

\* psutil.cpu_percent(interval=1)
Cpu ==
    /\ pc = "cpu"
    /\ sampled' = sampled \cup {"cpu"}
    /\ \E raised \in BOOLEAN :
         IF raised
         THEN /\ Uncaught("cpu")
              /\ UNCHANGED <<sys_stats, observed, elapsed>>
         ELSE /\ \E v \in SampleValues(cpu_threshold) :
                    observed' = [observed EXCEPT !["cpu"] = v]
              /\ \E d \in QueryTimes : elapsed' = elapsed + CPU_WINDOW + d
              /\ sys_stats' = Append(sys_stats, Entry("cpu", <<"overall_cpu_usage">>))
              /\ pc' = "warn_cpu"
              /\ UNCHANGED <<exit_status, fault, log_vars>>
    /\ UNCHANGED <<cfg_vars, fmt_vars, cycle, disk_stats, part_idx, warn_vars,
                   last_duration, last_idle>>

\* Mutant: a breach is also marked in the Snapshot.
WarnCpuMarksSnapshot ==
    /\ pc = "warn_cpu"
    /\ Warn("cpu", cpu_threshold)
    /\ sys_stats' = IF Exceeds(observed["cpu"], cpu_threshold)
                    THEN AddFields(sys_stats, <<"alert">>)
                    ELSE sys_stats
    /\ pc' = "cpu_rest"
    /\ UNCHANGED <<exit_status, fault, cfg_vars, fmt_vars, cycle, disk_stats, part_idx,
                   sampled, log_vars, time_vars>>

WarnCpu ==
    /\ pc = "warn_cpu"
    /\ Warn("cpu", cpu_threshold)
    /\ pc' = "cpu_rest"
    /\ UNCHANGED <<exit_status, fault, cfg_vars, fmt_vars, cycle, sys_stats, disk_stats, part_idx,
                   sampled, log_vars, time_vars>>

\* Mutant: a core's percentage is compared with cpu_threshold as well.
CpuRestComparesCores ==
    /\ pc = "cpu_rest"
    /\ sys_stats' = AddFields(sys_stats, <<"cpu_count", "per_cpu_usage">>)
    /\ cycle_warnings' = Append(cycle_warnings,
            [metric |-> "per_cpu_usage", value |-> cpu_threshold + 1,
             threshold |-> cpu_threshold])
    /\ warn_count' = warn_count + 1
    /\ pc' = AfterDomain(2)
    /\ UNCHANGED <<exit_status, fault, log_vars, cfg_vars, fmt_vars, cycle, observed,
                   disk_stats, part_idx, sampled, time_vars>>

\* psutil.cpu_count() and psutil.cpu_percent(percpu=True)
CpuRest ==
    /\ pc = "cpu_rest"
    /\ \E raised \in BOOLEAN :
         IF raised
         THEN /\ Uncaught("cpu")
              /\ UNCHANGED sys_stats
         ELSE /\ sys_stats' = AddFields(sys_stats, <<"cpu_count", "per_cpu_usage">>)
              /\ pc' = AfterDomain(2)
              /\ UNCHANGED <<exit_status, fault, log_vars>>
    /\ UNCHANGED <<cfg_vars, fmt_vars, cycle, observed, disk_stats, part_idx, sampled,
                   warn_vars, time_vars>>

\* psutil.disk_usage('/')
Disk ==
    /\ pc = "disk"
    /\ sampled' = sampled \cup {"disk"}
    /\ \E raised \in BOOLEAN :
         IF raised
         THEN /\ Uncaught("disk")
              /\ UNCHANGED <<sys_stats, observed, elapsed>>
         ELSE /\ \E v \in SampleValues(disk_threshold) :
                    observed' = [observed EXCEPT !["disk"] = v]
              /\ \E d \in QueryTimes : elapsed' = elapsed + d
              /\ sys_stats' = Append(sys_stats, Entry("disk", <<"overall_disk_usage">>))
              /\ pc' = "warn_disk"
              /\ UNCHANGED <<exit_status, fault, log_vars>>
    /\ UNCHANGED <<cfg_vars, fmt_vars, cycle, disk_stats, part_idx, warn_vars,
                   last_duration, last_idle>>

WarnDisk ==
    /\ pc = "warn_disk"
    /\ Warn("disk", disk_threshold)
    /\ pc' = "disk_io"
    /\ UNCHANGED <<exit_status, fault, cfg_vars, fmt_vars, cycle, sys_stats, disk_stats, part_idx,
                   sampled, log_vars, time_vars>>

\* psutil.disk_io_counters(), then the partition list
DiskIo ==
    /\ pc = "disk_io"
    /\ \E raised \in BOOLEAN :
         IF raised
         THEN /\ Uncaught("disk")
              /\ UNCHANGED <<sys_stats, disk_stats, part_idx>>
         ELSE /\ sys_stats' = AddFields(sys_stats, <<"disk_io_counters">>)
              /\ disk_stats' = <<>>
              /\ part_idx' = 1
              /\ pc' = "partitions"
              /\ UNCHANGED <<exit_status, fault, log_vars>>
    /\ UNCHANGED <<cfg_vars, fmt_vars, cycle, observed, sampled, warn_vars, time_vars>>

\* The test of lines 237-238.
Skipped(part) == os_name = "nt" /\ (part.cdrom \/ part.fstype = "")

\* One pass of "for part in psutil.disk_partitions(all=False)".
DiskPartition ==
    /\ pc = "partitions"
    /\ part_idx <= Len(Partitions)
    /\ LET part == Partitions[part_idx]
       IN  IF Skipped(part)
           THEN /\ part_idx' = part_idx + 1
                /\ UNCHANGED <<pc, exit_status, fault, disk_stats, log_vars>>
           ELSE \E raised \in BOOLEAN :
                  IF raised
                  THEN /\ Uncaught("partition")
                       /\ UNCHANGED <<disk_stats, part_idx>>
                  ELSE /\ disk_stats' = Append(disk_stats, part.device)
                       /\ part_idx' = part_idx + 1
                       /\ UNCHANGED <<pc, exit_status, fault, log_vars>>
    /\ UNCHANGED <<cfg_vars, fmt_vars, cycle, sys_stats, observed, sampled, warn_vars, time_vars>>

\* sys_stats['disk']['per_partition_usage'] = disk_stats
DiskPartitionsEnd ==
    /\ pc = "partitions"
    /\ part_idx > Len(Partitions)
    /\ sys_stats' = [AddFields(sys_stats, <<"per_partition_usage">>)
                        EXCEPT ![Len(sys_stats)].partitions = disk_stats]
    /\ pc' = AfterDomain(3)
    /\ UNCHANGED <<exit_status, fault, cfg_vars, fmt_vars, cycle, observed, disk_stats,
                   part_idx, sampled, warn_vars, log_vars, time_vars>>

\* psutil.net_io_counters() and psutil.net_io_counters(pernic=True)
Network ==
    /\ pc = "network"
    /\ sampled' = sampled \cup {"network"}
    /\ \E raised \in BOOLEAN :
         IF raised
         THEN /\ Uncaught("network")
              /\ UNCHANGED <<sys_stats, elapsed>>
         ELSE /\ \E d \in QueryTimes : elapsed' = elapsed + d
              /\ sys_stats' = Append(sys_stats,
                    Entry("network", <<"overall_io_counters", "per_nic_io_counters">>))
              /\ pc' = AfterDomain(4)
              /\ UNCHANGED <<exit_status, fault, log_vars>>
    /\ UNCHANGED <<cfg_vars, fmt_vars, cycle, observed, disk_stats, part_idx, warn_vars,
                   last_duration, last_idle>>

\* The record of a message: logging.Formatter('%(message)s\n\n') and the
\* terminator "\n" of the handler put two empty lines after it.
Format(iteration, message) ==
    [cycle |-> iteration, stats |-> message, blank_lines |-> 2]

\* flogobj.info(json.dumps(sys_stats, indent=4)): the handler writes the
\* record to its stream ...
Record ==
    /\ pc = "record"
    /\ buffer' = Append(buffer, Format(cycle, sys_stats))
    /\ handed' = handed + 1
    /\ pc' = "flush"
    /\ UNCHANGED <<exit_status, fault, cfg_vars, fmt_vars, cycle_vars, warn_vars, log,
                   write_errors, time_vars>>

\* Mutant: the flush replaces the content of the file.
FlushOverwrites ==
    /\ pc = "flush"
    /\ \E ok \in BOOLEAN :
         IF ok
         THEN /\ log' = buffer
              /\ buffer' = <<>>
              /\ UNCHANGED write_errors
         ELSE /\ write_errors' = write_errors + 1
              /\ UNCHANGED <<buffer, log>>
    /\ pc' = "sleep"
    /\ UNCHANGED <<exit_status, fault, handed, cfg_vars, fmt_vars, cycle_vars, warn_vars,
                   time_vars>>

\* ... and flushes it.  logging catches an exception of the write
\* (Handler.handleError prints it on stderr) and info() returns normally.
Flush ==
    /\ pc = "flush"
    /\ \E ok \in BOOLEAN :
         IF ok
         THEN /\ log' = log \o buffer
              /\ buffer' = <<>>
              /\ UNCHANGED write_errors
         ELSE /\ write_errors' = write_errors + 1
              /\ UNCHANGED <<buffer, log>>
    /\ pc' = "sleep"
    /\ UNCHANGED <<exit_status, fault, handed, cfg_vars, fmt_vars, cycle_vars, warn_vars, time_vars>>

\* Mutant: the loop sleeps the smallest interval, not the configured one.
SleepMinimum ==
    /\ pc = "sleep"
    /\ last_duration' = elapsed
    /\ last_idle' = MIN_LOG_INTERVAL
    /\ pc' = "loop"
    /\ UNCHANGED <<exit_status, fault, elapsed, cfg_vars, fmt_vars, cycle_vars, warn_vars, log_vars>>

\* time.sleep(log_interval)
Sleep ==
    /\ pc = "sleep"
    /\ last_duration' = elapsed
    /\ last_idle' = log_interval
    /\ pc' = "loop"
    /\ UNCHANGED <<exit_status, fault, elapsed, cfg_vars, fmt_vars, cycle_vars, warn_vars, log_vars>>

(***************************************************************************)
(* Specifications.                                                         *)
(***************************************************************************)
Loop ==
    \/ CycleStart
    \/ Memory \/ WarnVirt \/ WarnSwap
    \/ Cpu \/ WarnCpu \/ CpuRest
    \/ Disk \/ WarnDisk \/ DiskIo \/ DiskPartition \/ DiskPartitionsEnd
    \/ Network
    \/ Record \/ Flush \/ Sleep
    \/ Interrupt \/ signal_handler

Next == Main \/ KeyboardInterrupt \/ Loop

Spec == Init /\ [][Next]_vars

\* Start-up alone, over every raw value, up to the first time stamp.
NextConfig ==
    \/ ParseLogInterval \/ ParseCapture \/ ParseMemoryThreshold
    \/ ParseCpuThreshold \/ ParseDiskThreshold
    \/ Main \/ KeyboardInterrupt \/ CycleStart

ConfigSpec == ConfigInit /\ [][NextConfig]_vars

\* signal_handler is straight-line code: once entered it runs to its end.
FairSpec == Spec /\ WF_vars(signal_handler)

\* The unit formatter alone: a call of convert4humans on each reading.
FormatInit ==
    /\ pc = "convert4humans"
    /\ ntup \in Readings
    /\ os_name = "posix"
    /\ log_interval = 0
    /\ capture_params = <<>>
    /\ memory_threshold = 0
    /\ cpu_threshold = 0
    /\ disk_threshold = 0
    /\ Fresh

\* The monitoring loop for the command lines that give --capture alone:
\* the state after parser.parse_args() has returned, every other option at
\* its default.
CaptureInit ==
    /\ pc = "main"
    /\ os_name = "posix"
    /\ \E raw \in RawCaptures \cup {Absent} :
         /\ arg_capture(raw).ok
         /\ capture_params = arg_capture(raw).value
         /\ last_arg = [option |-> "--capture", raw |-> raw]
    /\ log_interval = arg_log_interval(Absent).value
    /\ memory_threshold = arg_memory_threshold(Absent).value
    /\ cpu_threshold = arg_cpu_threshold(Absent).value
    /\ disk_threshold = arg_disk_threshold(Absent).value
    /\ ntup = <<>>
    /\ parse_error = NoError
    /\ exit_status = NoExit
    /\ fault = "none"
    /\ cycle = 0
    /\ sys_stats = <<>>
    /\ observed = NoValue
    /\ disk_stats = <<>>
    /\ part_idx = 0
    /\ sampled = {}
    /\ cycle_warnings = <<>>
    /\ warn_count = 0
    /\ handed = 0
    /\ buffer = <<>>
    /\ log = <<>>
    /\ write_errors = 0
    /\ elapsed = 0
    /\ last_duration = 0
    /\ last_idle = 0
    /\ readings = <<>>

CaptureSpec == CaptureInit /\ [][Next]_vars

Convert ==
    /\ pc = "convert4humans"
    /\ readings' = convert4humans(ntup)
    /\ pc' = "returned"
    /\ UNCHANGED <<exit_status, fault, ntup, cfg_vars, cycle_vars, warn_vars, log_vars,
                   time_vars>>

NextFormat == Convert

FormatSpec == FormatInit /\ [][NextFormat]_vars

(***************************************************************************)
(* Vocabulary of the properties.                                           *)
(***************************************************************************)
\* The process states of the monitoring loop.
ProcState ==
    IF pc = "done" THEN "Terminated"
    ELSE IF pc = "signal_handler" THEN "ShuttingDown"
    ELSE "Running"

\* Every Snapshot that reached the log stream, oldest first.
Records == log \o buffer

Keys(stats) == [i \in 1..Len(stats) |-> stats[i].key]

\* A cycle is in progress from its time stamp until its Snapshot is handed
\* to the recorder.
InProgress == ProcState = "Running" /\ pc \in LoopPcs \ {"loop", "flush", "sleep"}

SamplerFaults == {"memory", "cpu", "disk", "network"}

(***************************************************************************)
(* C1: a sampler failure (the OS query of a captured domain raises) only   *)
(* drops that domain from the cycle's Snapshot; it never takes the process *)
(* out of the Running state.  Stated as: no sampler exception ever ends    *)
(* the process.  The code has no handler around the queries, so this is    *)
(* violated.                                                               *)
(***************************************************************************)
C1_SamplerFailureIsolated ==
    fault \in SamplerFaults => ProcState = "Running"

(***************************************************************************)
(* C2: a failing usage query of one partition never aborts the cycle: the  *)
(* process does not end with the exception of a partition query.  The      *)
(* partition loop has no handler, so this is violated.                     *)
(***************************************************************************)
C2_PartitionFailureIsolated ==
    ~(fault = "partition" /\ exit_status = EXIT_EXCEPTION)

(***************************************************************************)
(* C3: an interrupt is not honoured in the middle of a cycle: when the     *)
(* process has ended through the interrupt (and the log destination took   *)
(* every write), every cycle that started has its record in the log.       *)
(* signal_handler exits at once, so this is violated.                      *)
(***************************************************************************)
C3_InterruptedCycleRecorded ==
    (pc = "done" /\ exit_status = EXIT_SUCCESS /\ write_errors = 0)
        => Len(log) = cycle

(***************************************************************************)
(* C4: each evaluation of an aggregate metric emits exactly one warning    *)
(* if the observed value is strictly greater than the threshold and none   *)
(* otherwise, whatever was warned before; nothing else emits a warning; a  *)
(* metric is warned about at most once per cycle, and every sampled        *)
(* aggregate has been evaluated when the Snapshot is recorded.             *)
(***************************************************************************)
WarnPc ==
    [m \in Metrics |->
        CASE m = "virtual_memory" -> "warn_virt"
          [] m = "swap_memory" -> "warn_swap"
          [] m = "cpu" -> "warn_cpu"
          [] m = "disk" -> "warn_disk"]

ThresholdOf(m) ==
    CASE m \in {"virtual_memory", "swap_memory"} -> memory_threshold
      [] m = "cpu" -> cpu_threshold
      [] m = "disk" -> disk_threshold

Evaluates(m) == pc = WarnPc[m] /\ pc' # "signal_handler"

C4_EvaluationStep ==
    /\ \A m \in Metrics :
         Evaluates(m) =>
            IF observed[m] > ThresholdOf(m)
            THEN /\ warn_count' = warn_count + 1
                 /\ cycle_warnings' = Append(cycle_warnings,
                        [metric |-> m, value |-> observed[m], threshold |-> ThresholdOf(m)])
            ELSE /\ warn_count' = warn_count
                 /\ cycle_warnings' = cycle_warnings
    /\ (\A m \in Metrics : ~Evaluates(m)) => warn_count' = warn_count

C4_OncePerCycle ==
    /\ \A i, j \in 1..Len(cycle_warnings) :
         cycle_warnings[i].metric = cycle_warnings[j].metric => i = j
    /\ \A i \in 1..Len(cycle_warnings) :
         cycle_warnings[i].value > cycle_warnings[i].threshold
    /\ pc = "record" => observed = NoValue

C4_WarningIffAboveThreshold ==
    []C4_OncePerCycle /\ [][C4_EvaluationStep]_vars

\* All four metrics breached in two consecutive cycles: eight warnings.
C4_Witness ==
    cycle = 2 /\ Len(cycle_warnings) = 4 /\ warn_count = 8

(***************************************************************************)
(* C5: a rejected write of a record is fatal: after it no cycle is in      *)
(* progress any more.  logging swallows the exception of the write and     *)
(* the loop goes on, so this is violated.                                  *)
(***************************************************************************)
C5_WriteFailureFatal ==
    write_errors > 0 => ~InProgress

(***************************************************************************)
(* C6: the cadence is measured from the start of a cycle: a cycle that     *)
(* took D <= log_interval is followed by an idle time of log_interval - D, *)
(* a longer one by none.  The loop always sleeps log_interval, so this is  *)
(* violated.                                                               *)
(***************************************************************************)
C6_CadenceFromCycleStart ==
    (pc = "loop" /\ cycle >= 1) =>
        IF last_duration <= log_interval
        THEN last_duration + last_idle = log_interval
        ELSE last_idle = 0

(***************************************************************************)
(* C7: the top-level keys of every recorded Snapshot are the time-stamp    *)
(* key, first, followed by exactly the captured domains, each once.        *)
(* The claim names the key 'timestamp'; the code names it 'current_time'.  *)
(***************************************************************************)
ExactKeys(first) ==
    \A i \in 1..Len(Records) :
        LET keys == Keys(Records[i].stats)
        IN  /\ keys[1] = first
            /\ Range(Tail(keys)) = Range(capture_params)
            /\ Len(keys) = 1 + Cardinality(Range(capture_params))

C8_States ==
    /\ ProcState \in {"Running", "ShuttingDown", "Terminated"}
    /\ ProcState = "Terminated" <=> exit_status # NoExit
    /\ (ProcState = "Terminated" /\ exit_status = EXIT_SUCCESS /\ write_errors = 0)
            => buffer = <<>>

C8_Step ==
    /\ ProcState = "ShuttingDown" =>
          /\ pc' = "done"
          /\ exit_status' = EXIT_SUCCESS
          /\ UNCHANGED <<cycle, sampled, handed, warn_count, cycle_warnings>>
          /\ Len(log') + Len(buffer') = Len(log) + Len(buffer)
    /\ ProcState = "Terminated" => UNCHANGED vars

C8_GracefulShutdown ==
    /\ []C8_States
    /\ [][C8_Step]_vars
    /\ (ProcState = "ShuttingDown") ~> (ProcState = "Terminated" /\ exit_status = EXIT_SUCCESS)

\* The interrupt arrived between the write of a record and its flush.
C8_Witness ==
    ProcState = "ShuttingDown" /\ buffer # <<>> /\ write_errors = 0 /\ cycle = 1

(***************************************************************************)
(* C9: the idle time between the record of a cycle and the start of the    *)
(* next is at least log_interval minus the time the cycle took, for every  *)
(* log_interval in [5,3600]; a cycle starts only when every earlier cycle  *)
(* has handed its Snapshot to the recorder, so at most one is in progress. *)
(***************************************************************************)
C9_GapAndNoOverlap ==
    /\ log_interval \in 5..3600
    /\ (pc = "loop" /\ cycle >= 1) => last_idle >= log_interval - last_duration
    /\ cycle - handed \in {0, 1}
    /\ InProgress => cycle = handed + 1
    /\ pc \in {"loop", "flush", "sleep"} => cycle = handed

\* A second cycle after a slow first one, at the largest interval.
C9_Witness ==
    cycle = 2 /\ last_duration > 0 /\ log_interval = 3600 /\ InProgress

(***************************************************************************)
(* C10: parse_args fails, naming the option, exactly for a raw value that  *)
(* is no integer or lies outside its range (log_interval: [5,3600], the    *)
(* thresholds: [1,99]) or for a capture list with a name outside memory,   *)
(* cpu, disk, network, all; it fails before the loop starts; and the loop  *)
(* only ever runs with values inside the ranges.                           *)
(***************************************************************************)
IntegerIn(raw, lo, hi) == PyInt(raw).ok /\ PyInt(raw).value \in lo..hi

Acceptable(arg) ==
    \/ arg.raw = Absent
    \/ /\ arg.option = "--log_interval"
       /\ IntegerIn(arg.raw, 5, 3600)
    \/ /\ arg.option \in {"--memory_threshold", "--cpu_threshold", "--disk_threshold"}
       /\ IntegerIn(arg.raw, 1, 99)
    \/ /\ arg.option = "--capture"
       /\ LET pieces == SplitComma(arg.raw, <<>>)
          IN  \A i \in 1..Len(pieces) :
                PieceName(pieces[i]) \in {"memory", "cpu", "disk", "network", "all"}

C10_ConfigurationValidated ==
    /\ parse_error # NoError <=> (last_arg # NoArg /\ ~Acceptable(last_arg))
    /\ parse_error # NoError =>
          /\ pc = "done"
          /\ exit_status = EXIT_USAGE
          /\ parse_error.argument = last_arg.option
          /\ cycle = 0
          /\ sampled = {}
    /\ pc \in {"main"} \cup LoopPcs =>
          /\ log_interval \in 5..3600
          /\ memory_threshold \in 1..99
          /\ cpu_threshold \in 1..99
          /\ disk_threshold \in 1..99
          /\ capture_params # <<>>
          /\ Range(capture_params) \subseteq {"memory", "cpu", "disk", "network"}

\* --disk_threshold 100 is refused after four accepted options.
C10_Witness ==
    /\ pc = "done"
    /\ parse_error.argument = "--disk_threshold"
    /\ last_arg.raw = <<"1", "0", "0">>
    /\ log_interval = 3600
    /\ memory_threshold = 1
    /\ cpu_threshold = 99

(***************************************************************************)
(* C11: convert4humans renders each field of a reading by its kind and     *)
(* keeps the field set and the field order: a byte count gets the largest  *)
(* binary unit it reaches (K, M, G, T) and two decimals (1,073,741,824     *)
(* gives "1.00G"), the percent field is the value followed by "%" (42      *)
(* gives "42%"), and fstype, mountpoint and device pass through unchanged. *)
(***************************************************************************)
\* What the claim says of byte counts, case by case.
C11_Rendered ==
    [n \in ByteCounts |->
        CASE n = Number(0, KiB) -> "1.00K"
          [] n = Number(0, KiB + 512) -> "1.50K"
          [] n = Number(0, MiB) -> "1.00M"
          [] n = Number(0, 5 * MiB + 256 * KiB) -> "5.25M"
          [] n = Number(1, 0) -> "1.00G"
          [] n = Number(1, 512 * MiB) -> "1.50G"
          [] n = Number(KiB, 0) -> "1.00T"
          [] n = Number(3 * KiB + 768, 0) -> "3.75T"
          [] OTHER -> ""]

C11_PercentRendered == [p \in Percents |-> CASE p = 0 -> "0%" [] p = 42 -> "42%" [] p = 100 -> "100%"]

Stage(at) ==
    CASE at = "loop" -> 0
      [] at \in {"memory", "warn_virt", "warn_swap"} -> 1
      [] at \in {"cpu", "warn_cpu", "cpu_rest"} -> 2
      [] at \in {"disk", "warn_disk", "disk_io", "partitions"} -> 3
      [] at = "network" -> 4
      [] at \in {"record", "flush"} -> 5
      [] at = "sleep" -> 6

DomainOf(metric) ==
    IF metric \in {"virtual_memory", "swap_memory"} THEN "memory" ELSE metric

\* The keys a complete Snapshot has: the time stamp, then the captured
\* domains in the fixed order.
SnapshotKeys == <<"current_time">> \o SelectSeq(DomainOrder, Captured)

IsPrefix(s, t) == Len(s) <= Len(t) /\ s = SubSeq(t, 1, Len(s))

C12_Step ==
    /\ (pc \in LoopPcs /\ pc' \in LoopPcs /\ pc # "sleep") => Stage(pc) <= Stage(pc')
    /\ (pc = "sleep" /\ pc' = "loop") => handed = cycle
    /\ pc' \in LoopPcs => IsPrefix(Keys(sys_stats'), SnapshotKeys)
    /\ (cycle' = cycle /\ sampled' # sampled) =>
          \E d \in Range(DomainOrder) :
              /\ sampled' = sampled \cup {d}
              /\ pc = d
              /\ \A e \in sampled : Stage(e) < Stage(d)
    /\ (cycle' = cycle /\ cycle_warnings' # cycle_warnings) =>
          /\ handed = cycle - 1
          /\ Len(cycle_warnings') = Len(cycle_warnings) + 1
          /\ LET w == cycle_warnings'[Len(cycle_warnings')]
             IN  /\ DomainOf(w.metric) \in sampled
                 /\ Stage(pc) = Stage(DomainOf(w.metric))
                 /\ w.value = observed[w.metric]
    /\ handed' # handed =>
          /\ pc = "record"
          /\ handed = cycle - 1
          /\ handed' = cycle
          /\ Keys(sys_stats) = SnapshotKeys
          /\ sampled = Range(SnapshotKeys) \ {"current_time"}
          /\ cycle_warnings' = cycle_warnings

C12_FixedOrder == [][C12_Step]_vars

\* The capture list names disk before memory; the Snapshot handed over has
\* memory before disk and the cycle's warnings came first.
C12_Witness ==
    /\ capture_params = <<"disk", "memory">>
    /\ pc = "flush"
    /\ Keys(sys_stats) = <<"current_time", "memory", "disk">>
    /\ Len(cycle_warnings) = 3

(***************************************************************************)
(* C13: only the four aggregate metrics are compared with thresholds.      *)
(* Reading the per-core percentages, the per-partition usage and the       *)
(* network counters never adds a warning, so a cycle has at most 4         *)
(* warnings (at most 2 about memory, 1 about cpu, 1 about disk, none about *)
(* network), and a cycle that captures only network has none.              *)
(***************************************************************************)
WarningsAbout(domain) ==
    Cardinality({i \in 1..Len(cycle_warnings) :
                    DomainOf(cycle_warnings[i].metric) = domain})

\* The positions at which granular values and counters are read.
GranularPcs == {"cpu_rest", "disk_io", "partitions", "network"}

C13_Bounds ==
    /\ Len(cycle_warnings) <= 4
    /\ \A i \in 1..Len(cycle_warnings) : cycle_warnings[i].metric \in Metrics
    /\ WarningsAbout("memory") <= 2
    /\ WarningsAbout("cpu") <= 1
    /\ WarningsAbout("disk") <= 1
    /\ WarningsAbout("network") = 0
    /\ capture_params = <<"network">> => warn_count = 0

C13_GranularStep ==
    pc \in GranularPcs => /\ cycle_warnings' = cycle_warnings
                          /\ warn_count' = warn_count

C13_OnlyAggregatesCompared == []C13_Bounds /\ [][C13_GranularStep]_vars

\* A cycle with all four warnings has read the network counters as well.
C13_Witness ==
    /\ pc = "record"
    /\ "network" \in sampled
    /\ Len(sys_stats) = 5
    /\ Len(sys_stats[3].fields) = 3
    /\ Len(sys_stats[4].partitions) >= 2
    /\ WarningsAbout("memory") = 2
    /\ WarningsAbout("cpu") = 1
    /\ WarningsAbout("disk") = 1

(***************************************************************************)
(* C14: threshold evaluation does not change the Snapshot.  No evaluation  *)
(* step touches the Snapshot under construction, and every record is what  *)
(* the capture list and the platform alone determine (keys, fields,        *)
(* partitions, in order): the thresholds and the warnings play no part, so *)
(* runs that differ only in the thresholds record the same Snapshots.      *)
(***************************************************************************)
EvaluationPcs == {"warn_virt", "warn_swap", "warn_cpu", "warn_disk"}

FieldsOf(key) ==
    CASE key = "current_time" -> <<>>
      [] key = "memory" -> <<"virtual_memory", "swap_memory">>
      [] key = "cpu" -> <<"overall_cpu_usage", "cpu_count", "per_cpu_usage">>
      [] key = "disk" -> <<"overall_disk_usage", "disk_io_counters", "per_partition_usage">>
      [] key = "network" -> <<"overall_io_counters", "per_nic_io_counters">>

Mounted(part) == os_name # "nt" \/ (~part.cdrom /\ part.fstype # "")

Devices(parts) == [i \in 1..Len(parts) |-> parts[i].device]

\* A function of capture_params and os_name only.
ThresholdFreeSnapshot ==
    LET keys == SnapshotKeys
        devices == Devices(SelectSeq(Partitions, Mounted))
    IN  [i \in 1..Len(keys) |->
            [key |-> keys[i],
             fields |-> FieldsOf(keys[i]),
             partitions |-> IF keys[i] = "disk" THEN devices ELSE <<>>]]

C14_Records ==
    LET expected == ThresholdFreeSnapshot
    IN  \A i \in 1..Len(Records) : Records[i].stats = expected

C14_EvaluationStep == pc \in EvaluationPcs => sys_stats' = sys_stats

C15_Step ==
    /\ IsPrefix(log, log')
    /\ IsPrefix(Records, Records')
    /\ Len(log') > Len(log) => log' = log \o buffer

C15_Log ==
    /\ \A i \in 1..Len(Records) : Records[i].blank_lines >= 1
    /\ \A i, j \in 1..Len(Records) : i < j => Records[i].cycle < Records[j].cycle
    /\ write_errors = 0 => Len(buffer) <= 1
    /\ (write_errors = 0 /\ pc = "done") => Len(log) >= handed - 1

C15_AppendOnly == []C15_Log /\ [][C15_Step]_vars

\* The write of the first record was rejected; it reached the log together
\* with the second, in order, before the interrupt ended the process.
C15_Witness ==
    /\ pc = "done"
    /\ exit_status = EXIT_SUCCESS
    /\ write_errors = 1
    /\ Len(log) = 2
    /\ log[1].cycle = 1
    /\ log[2].cycle = 2
    /\ buffer = <<>>

(***************************************************************************)
(* C16: without an external interrupt and without a rejected write the     *)
(* loop never terminates; in particular a sampler or partition failure     *)
(* never ends it.  Stated on finite runs: once the loop has started a      *)
(* cycle, the process is only ever found terminated after an interrupt or  *)
(* a rejected write.  An exception of a query ends the process, so this is *)
(* violated.                                                               *)
(***************************************************************************)
C16_LoopNeverTerminates ==
    (ProcState = "Terminated" /\ cycle >= 1) =>
        \/ exit_status = EXIT_SUCCESS
        \/ write_errors > 0

(***************************************************************************)
(* C17: the list the capture validator returns never contains 'all'.  If   *)
(* 'all' is among the comma-separated names, alone or with other valid     *)
(* names, the list is exactly memory, cpu, disk, network; otherwise its    *)
(* elements are the given names, stripped of whitespace.  The domain keys  *)
(* of every Snapshot, recorded or under construction, are among them.      *)
(***************************************************************************)
GivenNames ==
    LET given == IF last_arg.raw = Absent THEN <<"all">> ELSE last_arg.raw
        pieces == SplitComma(given, <<>>)
    IN  {PieceName(pieces[i]) : i \in 1..Len(pieces)}

DomainKeys(stats) == Range(Keys(stats)) \ {"current_time"}

C17_CaptureResult ==
    last_arg.option = "--capture" =>
        /\ "all" \notin Range(capture_params)
        /\ "all" \in GivenNames => capture_params = <<"memory", "cpu", "disk", "network">>
        /\ "all" \notin GivenNames => Range(capture_params) = GivenNames
        /\ DomainKeys(sys_stats) \subseteq Range(capture_params)
        /\ \A i \in 1..Len(Records) :
             DomainKeys(Records[i].stats) \subseteq Range(capture_params)

\* "memory,all" was given and a Snapshot with all four domains is in the log.
C17_Witness ==
    /\ last_arg = [option |-> "--capture", raw |-> <<"memory", ",", "all">>]
    /\ Len(log) >= 1
    /\ DomainKeys(log[1].stats) = {"memory", "cpu", "disk", "network"}

(***************************************************************************)
(* C18: every warning belongs to a recorded cycle: the Snapshot of the     *)
(* cycle that emitted a warning is recorded and contains the domain the    *)
(* warning is about, whatever sampler failures, partition failures or      *)
(* interrupts occur.  Stated on finite runs: a process that has ended with *)
(* warnings in its last cycle has handed that cycle's Snapshot, with the   *)
(* warned domains, to the recorder.  A failure or an interrupt after the   *)
(* warning ends the process before the record, so this is violated.        *)
(***************************************************************************)
C18_WarningHasRecord ==
    (ProcState = "Terminated" /\ cycle_warnings # <<>>) =>
        /\ handed = cycle
        /\ \E i \in 1..Len(Records) :
             /\ Records[i].cycle = cycle
             /\ \A j \in 1..Len(cycle_warnings) :
                  DomainOf(cycle_warnings[j].metric) \in DomainKeys(Records[i].stats)

(***************************************************************************)
(* C19: a domain that is not in the capture list is never touched by a     *)
(* cycle: its queries are not made (without 'cpu' the blocking 1-second    *)
(* measurement does not happen), none of its thresholds is evaluated and   *)
(* no warning about it is emitted.                                         *)
(***************************************************************************)
C19_Untouched(domain) ==
    /\ domain \notin sampled
    /\ domain \notin DomainKeys(sys_stats)
    /\ pc \in LoopPcs => Stage(pc) # Stage(domain)
    /\ \A m \in Metrics : DomainOf(m) = domain => observed[m] = NoValue[m]
    /\ WarningsAbout(domain) = 0
    /\ \A i \in 1..Len(Records) : domain \notin DomainKeys(Records[i].stats)

\* The queries take 0 or SlowQuery seconds beyond their fixed part, and
\* only the measurement of line 212 has one: a cycle that has not measured
\* the cpu is a whole number of slow queries old.
C19_NoCpuWindow == elapsed % SlowQuery = 0 /\ last_duration % SlowQuery = 0

C19_UncapturedUntouched ==
    /\ \A domain \in Range(DomainOrder) : ~Captured(domain) => C19_Untouched(domain)
    /\ ~Captured("cpu") => C19_NoCpuWindow

\* Two cycles that capture the network alone, the second one with a slow
\* query: nothing else was queried and no second was spent measuring.
C19_Witness ==
    /\ capture_params = <<"network">>
    /\ cycle = 2
    /\ pc = "sleep"
    /\ sampled = {"network"}
    /\ elapsed = SlowQuery
    /\ last_duration = 0
    /\ Len(log) = 2

====
